---------------------------- MODULE Spec2Model ----------------------------
(***************************************************************************)
(* fetch-site-cli (src/src/fetch.ts): a command line tool that mirrors web *)
(* pages onto local storage and keeps a ledger of per-page statistics in   *)
(* meta.json.                                                              *)
(*                                                                         *)
(* Text (URLs, references, paths) is a sequence of one-character strings,  *)
(* so that the string functions of the program are computed, not assumed.  *)
(***************************************************************************)
EXTENDS Integers, Sequences, FiniteSets, TLC

(***************************************************************************)
(* Bounds of the model.                                                    *)
(***************************************************************************)
\* processes (invocations of the CLI) in one behaviour
MaxProcs == 2
\* command-line arguments of one invocation
MaxArgs == 3
\* mirroring runs in one behaviour, over all its processes
MaxRuns == 2
\* length of the generated tail of a URL in the normalisation check
MaxTail == 3
\* length of a generated resource reference in the path checks
MaxRef == 3

(***************************************************************************)
(* Text helpers.                                                           *)
(***************************************************************************)
Last(s) == s[Len(s)]

StartsWith(s, p) == Len(s) >= Len(p) /\ SubSeq(s, 1, Len(p)) = p

\* the first position of s holding a character of cs, 0 when there is none
IndexOfAny(s, cs) ==
    IF \E i \in 1..Len(s) : s[i] \in cs
    THEN CHOOSE i \in 1..Len(s) : s[i] \in cs /\ \A j \in 1..(i - 1) : s[j] \notin cs
    ELSE 0

\* s up to (not including) the first character of cs
UpToAny(s, cs) ==
    IF IndexOfAny(s, cs) = 0 THEN s ELSE SubSeq(s, 1, IndexOfAny(s, cs) - 1)

\* s from the first character of cs on (empty when there is none)
FromAny(s, cs) ==
    IF IndexOfAny(s, cs) = 0 THEN <<>> ELSE SubSeq(s, IndexOfAny(s, cs), Len(s))

RECURSIVE SplitOn(_, _)
SplitOn(s, c) ==
    IF IndexOfAny(s, {c}) = 0
    THEN <<s>>
    ELSE <<SubSeq(s, 1, IndexOfAny(s, {c}) - 1)>>
            \o SplitOn(SubSeq(s, IndexOfAny(s, {c}) + 1, Len(s)), c)

RECURSIVE JoinWith(_, _)
JoinWith(segs, c) ==
    IF segs = <<>> THEN <<>>
    ELSE IF Len(segs) = 1 THEN segs[1]
    ELSE segs[1] \o <<c>> \o JoinWith(Tail(segs), c)

\* String.prototype.replace(/[cs]/g, '_')
ReplaceAll(s, cs) == [i \in 1..Len(s) |-> IF s[i] \in cs THEN "_" ELSE s[i]]

\* String.prototype.toLowerCase on the letters the model uses
ToLowerChar(c) ==
    CASE c = "H" -> "h" [] c = "T" -> "t" [] c = "P" -> "p" [] c = "S" -> "s"
      [] c = "M" -> "m" [] OTHER -> c

ToLower(s) == [i \in 1..Len(s) |-> ToLowerChar(s[i])]

\* \s of a JavaScript regular expression, and the line terminators "." refuses
WhiteSpace == {" ", "\t", "\n", "\r"}
LineTerminator == {"\n", "\r"}

HttpScheme == <<"h", "t", "t", "p", ":", "/", "/">>
HttpsScheme == <<"h", "t", "t", "p", "s", ":", "/", "/">>

\* String.prototype.replace(/^https?:\/\//, ''): case-sensitive, at the start only
StripScheme(url) ==
    IF StartsWith(url, HttpsScheme) THEN SubSeq(url, Len(HttpsScheme) + 1, Len(url))
    ELSE IF StartsWith(url, HttpScheme) THEN SubSeq(url, Len(HttpScheme) + 1, Len(url))
    ELSE url

(***************************************************************************)
(* URL Normalizer: fetch.ts lines 103-110, 142-153.                        *)
(***************************************************************************)
\* url.replace(/\/$/, ''): one trailing slash is removed
removeTrailingSlash(url) ==
    IF Len(url) > 0 /\ Last(url) = "/" THEN SubSeq(url, 1, Len(url) - 1) ELSE url

\* /^(https?):\/\/[^\s/$.?#].[^\s]*$/i
isValidUrl(url) ==
    \E n \in {Len(HttpScheme), Len(HttpsScheme)} :
        /\ Len(url) >= n + 2
        /\ ToLower(SubSeq(url, 1, n)) \in {HttpScheme, HttpsScheme}
        /\ url[n + 1] \notin WhiteSpace \cup {"/", "$", ".", "?", "#"}
        /\ url[n + 2] \notin LineTerminator
        /\ \A i \in (n + 3)..Len(url) : url[i] \notin WhiteSpace

DotHtml == <<".", "h", "t", "m", "l">>

urlToFilename(url) == ReplaceAll(StripScheme(url), {"/", "&", "?"}) \o DotHtml

urlToSiteBaseUrl(url) == ReplaceAll(StripScheme(url), {"/", "&", "?", ".", ":", "=", "$"})

(***************************************************************************)
(* Node's path module (posix), as used at fetch.ts lines 89, 137, 158,     *)
(* 164, 259 and 291.                                                       *)
(***************************************************************************)
Dot == <<".">>
DotDot == <<".", ".">>

\* normalizeString: drops empty and "." segments, resolves ".."
RECURSIVE normalizeString(_, _, _)
normalizeString(segs, acc, allowAboveRoot) ==
    IF segs = <<>> THEN acc
    ELSE LET s == Head(segs)
             next == IF s = <<>> \/ s = Dot THEN acc
                     ELSE IF s = DotDot
                          THEN IF acc # <<>> /\ Last(acc) # DotDot
                               THEN SubSeq(acc, 1, Len(acc) - 1)
                               ELSE IF allowAboveRoot THEN Append(acc, s) ELSE acc
                          ELSE Append(acc, s)
         IN  normalizeString(Tail(segs), next, allowAboveRoot)

pathNormalize(p) ==
    IF Len(p) = 0 THEN Dot
    ELSE LET isAbsolute == p[1] = "/"
             trailingSeparator == Last(p) = "/"
             body == JoinWith(normalizeString(SplitOn(p, "/"), <<>>, ~isAbsolute), "/")
         IN  IF body = <<>>
             THEN IF isAbsolute THEN <<"/">>
                  ELSE IF trailingSeparator THEN <<".", "/">> ELSE Dot
             ELSE (IF isAbsolute THEN <<"/">> ELSE <<>>) \o body
                    \o (IF trailingSeparator THEN <<"/">> ELSE <<>>)

\* path.join(a, b): the non-empty arguments joined by "/" and normalized
pathJoin(a, b) ==
    LET joined == IF a = <<>> THEN b ELSE IF b = <<>> THEN a ELSE a \o <<"/">> \o b
    IN  IF joined = <<>> THEN Dot ELSE pathNormalize(joined)

\* path.dirname(p)
pathDirname(p) ==
    LET nonSlash == {i \in 2..Len(p) : p[i] # "/"}
        j == IF nonSlash = {} THEN 0 ELSE CHOOSE i \in nonSlash : \A k \in nonSlash : k <= i
        slashes == {i \in 2..Len(p) : i < j /\ p[i] = "/"}
        end == IF slashes = {} THEN 0 ELSE CHOOSE i \in slashes : \A k \in slashes : k <= i
        hasRoot == Len(p) > 0 /\ p[1] = "/"
    IN  IF Len(p) = 0 THEN Dot
        ELSE IF end = 0 THEN (IF hasRoot THEN <<"/">> ELSE Dot)
        ELSE IF hasRoot /\ end = 2 THEN <<"/", "/">>
        ELSE SubSeq(p, 1, end - 1)

(***************************************************************************)
(* The WHATWG URL parser behind `new URL(url, baseUrl)` (fetch.ts line     *)
(* 229) and `new URL(url).pathname` (line 258), for http(s) URLs over text *)
(* without control characters other than tab and newline, backslashes,     *)
(* "@", "%", ports, digits or non-ASCII characters.                        *)
(***************************************************************************)
\* "remove all ASCII tab or newline from input", the parser's first step
TabOrNewline == {"\t", "\n", "\r"}
stripTabOrNewline(input) == SelectSeq(input, LAMBDA c : c \notin TabOrNewline)

InvalidURL ==
    [ok |-> FALSE, scheme |-> <<>>, host |-> <<>>, path |-> <<>>,
     hasQuery |-> FALSE, query |-> <<>>, hasFragment |-> FALSE, fragment |-> <<>>]

ForbiddenHostCodePoint == {" ", "#", "/", "<", ">", "?", "@", "[", "\\", "]", "^", "|", "%"}

\* "shorten a URL's path": the last segment is removed, if there is one
shortenPath(path) == IF path = <<>> THEN path ELSE SubSeq(path, 1, Len(path) - 1)

\* the path state: one buffer per "/"-separated part, dot segments resolved
RECURSIVE urlPathState(_, _)
urlPathState(parts, path) ==
    IF parts = <<>> THEN path
    ELSE LET buffer == Head(parts)
             isLast == Len(parts) = 1
             next == IF buffer = DotDot
                     THEN IF isLast THEN Append(shortenPath(path), <<>>)
                          ELSE shortenPath(path)
                     ELSE IF buffer = Dot
                          THEN IF isLast THEN Append(path, <<>>) ELSE path
                          ELSE Append(path, buffer)
         IN  urlPathState(Tail(parts), next)

\* the query and fragment states on what follows the path
urlQueryOf(rest) == IF rest # <<>> /\ rest[1] = "?" THEN UpToAny(Tail(rest), {"#"}) ELSE <<>>
urlFragmentOf(rest) ==
    IF IndexOfAny(rest, {"#"}) = 0 THEN <<>>
    ELSE SubSeq(rest, IndexOfAny(rest, {"#"}) + 1, Len(rest))

\* scheme, host and starting path known: parse path, query and fragment of t
urlFromPath(scheme, host, path, t, skipSlash) ==
    LET pathStr == UpToAny(t, {"?", "#"})
        rest == FromAny(t, {"?", "#"})
        body == IF skipSlash /\ pathStr # <<>> /\ pathStr[1] = "/" THEN Tail(pathStr)
                ELSE pathStr
    IN  [ok |-> TRUE, scheme |-> scheme, host |-> host,
         path |-> urlPathState(SplitOn(body, "/"), path),
         hasQuery |-> rest # <<>> /\ rest[1] = "?", query |-> urlQueryOf(rest),
         hasFragment |-> IndexOfAny(rest, {"#"}) # 0, fragment |-> urlFragmentOf(rest)]

RECURSIVE skipSlashes(_)
skipSlashes(t) == IF t # <<>> /\ t[1] = "/" THEN skipSlashes(Tail(t)) ELSE t

\* the authority and host states, entered after the slashes that follow the scheme
urlFromAuthority(scheme, t) ==
    LET afterSlashes == skipSlashes(t)
        host == ToLower(UpToAny(afterSlashes, {"/", "?", "#"}))
    IN  IF host = <<>> \/ \E i \in 1..Len(host) : host[i] \in ForbiddenHostCodePoint
        THEN InvalidURL
        ELSE urlFromPath(scheme, host, <<>>, FromAny(afterSlashes, {"/", "?", "#"}), TRUE)

\* new URL(url): an absolute http(s) URL
parseURL(url) ==
    LET input == stripTabOrNewline(url)
    IN  IF StartsWith(ToLower(input), HttpsScheme)
        THEN urlFromAuthority(<<"h", "t", "t", "p", "s">>,
                              SubSeq(input, Len(HttpsScheme) + 1, Len(input)))
        ELSE IF StartsWith(ToLower(input), HttpScheme)
        THEN urlFromAuthority(<<"h", "t", "t", "p">>,
                              SubSeq(input, Len(HttpScheme) + 1, Len(input)))
        ELSE InvalidURL

\* new URL(ref, baseUrl) for a reference without a scheme (no ":" passes the filter)
resolveURL(ref, baseUrl) ==
    LET base == parseURL(baseUrl)
    IN  IF ~base.ok THEN InvalidURL
        ELSE IF ref = <<>> THEN [base EXCEPT !.hasFragment = FALSE, !.fragment = <<>>]
        ELSE IF StartsWith(ref, <<"/", "/">>) THEN urlFromAuthority(base.scheme, ref)
        ELSE IF ref[1] = "/" THEN urlFromPath(base.scheme, base.host, <<>>, ref, TRUE)
        ELSE IF ref[1] = "?"
             THEN [base EXCEPT !.hasQuery = TRUE, !.query = urlQueryOf(ref),
                               !.hasFragment = IndexOfAny(ref, {"#"}) # 0,
                               !.fragment = urlFragmentOf(ref)]
        ELSE IF ref[1] = "#"
             THEN [base EXCEPT !.hasFragment = TRUE, !.fragment = Tail(ref)]
        ELSE urlFromPath(base.scheme, base.host, shortenPath(base.path), ref, FALSE)

\* URL.pathname
urlPathname(u) == <<"/">> \o JoinWith(u.path, "/")

\* URL.href
urlHref(u) ==
    u.scheme \o <<":", "/", "/">> \o u.host \o urlPathname(u)
      \o (IF u.hasQuery THEN <<"?">> \o u.query ELSE <<>>)
      \o (IF u.hasFragment THEN <<"#">> \o u.fragment ELSE <<>>)


(***************************************************************************)
(* HTML documents, as cheerio sees them: the sequence of the elements the  *)
(* program selects (a, img, link, script), each with the one attribute the *)
(* program reads (src of img and script, href of link), and whether the    *)
(* text is a whole document (html/head/body present), which is what        *)
(* $.html() always serialises.                                             *)
(***************************************************************************)
Anchor == [tag |-> "a", rel |-> "", has |-> FALSE, val |-> <<>>]
Img(src) == [tag |-> "img", rel |-> "", has |-> TRUE, val |-> src]
ImgNoSrc == [tag |-> "img", rel |-> "", has |-> FALSE, val |-> <<>>]
Stylesheet(href) == [tag |-> "link", rel |-> "stylesheet", has |-> TRUE, val |-> href]
Script(src) == [tag |-> "script", rel |-> "", has |-> TRUE, val |-> src]

\* IMAGE_SELECTOR, CSS_SELECTOR, JS_SELECTOR (fetch.ts lines 36-38)
matchesImage(el) == el.tag = "img"
matchesCss(el) == el.tag = "link" /\ el.rel = "stylesheet"
matchesJs(el) == el.tag = "script" /\ el.has

RECURSIVE SelectSeq2(_, _)
SelectSeq2(els, sel) ==
    IF els = <<>> THEN <<>>
    ELSE (IF sel = "img" /\ matchesImage(Head(els)) /\ Head(els).has THEN <<Head(els).val>>
          ELSE IF sel = "css" /\ matchesCss(Head(els)) /\ Head(els).has THEN <<Head(els).val>>
          ELSE IF sel = "js" /\ matchesJs(Head(els)) THEN <<Head(els).val>>
          ELSE <<>>) \o SelectSeq2(Tail(els), sel)

\* elements.map((_, element) => element.attribs.src).toArray(): cheerio's map
\* leaves out the elements for which the attribute is undefined
listImagesInHtml(html) == SelectSeq2(html.els, "img")
listCssFilesInHtml(html) == SelectSeq2(html.els, "css")
listJsFilesInHtml(html) == SelectSeq2(html.els, "js")

\* file.length > 0 && !/[;:,]/.test(file)
validFilename(file) ==
    Len(file) > 0 /\ \A i \in 1..Len(file) : file[i] \notin {";", ":", ","}

RECURSIVE FilterValid(_)
FilterValid(refs) ==
    IF refs = <<>> THEN <<>>
    ELSE (IF validFilename(Head(refs)) THEN <<Head(refs)>> ELSE <<>>) \o FilterValid(Tail(refs))

\* [...images, ...cssFiles, ...jsFiles].filter(validFilename)
validFiles(html) ==
    FilterValid(listImagesInHtml(html) \o listCssFilesInHtml(html) \o listJsFilesInHtml(html))

\* countFilesInHtml: the numbers of a and img elements
countTagsInHtml(html, tagName) == Cardinality({i \in 1..Len(html.els) : html.els[i].tag = tagName})
countFilesInHtml(html) == <<countTagsInHtml(html, "a"), countTagsInHtml(html, "img")>>

\* "http", the prefix modifyPath leaves alone
HttpPrefix == <<"h", "t", "t", "p">>

\* modifyPath on an element one of the three selectors matched
modifyPath(el, siteDir) ==
    IF (matchesImage(el) \/ matchesCss(el) \/ matchesJs(el))
       /\ el.has /\ el.val # <<>> /\ ~StartsWith(el.val, HttpPrefix)
    THEN [el EXCEPT !.val = pathJoin(siteDir, el.val)]
    ELSE el

modifyHtmlContent(htmlContent, siteDir) ==
    [wrapped |-> TRUE,
     els |-> [i \in 1..Len(htmlContent.els) |-> modifyPath(htmlContent.els[i], siteDir)]]


(***************************************************************************)
(* Program constants and the values the environment supplies.              *)
(***************************************************************************)
\* APP_ROOT_PATH (fetch.ts line 35) and META_FILE (line 40)
APP_ROOT_PATH == <<"f", "e", "t", "c", "h", "-", "s", "i", "t", "e", "-", "c", "l", "i">>
META_FILE == <<"m", "e", "t", "a", ".", "j", "s", "o", "n">>

\* process.cwd(): the WORKDIR of the Dockerfile
Cwd == <<"/", "a", "p", "p">>

\* the command-line tokens an invocation is given
UrlA == <<"h", "t", "t", "p", ":", "/", "/", "a", "b">>
UrlASlash == <<"h", "t", "t", "p", ":", "/", "/", "a", "b", "/">>
UrlDeep == <<"h", "t", "t", "p", ":", "/", "/", "a", "b", "/", "c", "/", "d">>
UrlFtp == <<"f", "t", "p", ":", "/", "/", "a", "b">>
UrlTab == <<"h", "t", "t", "p", ":", "/", "/", "a", "\t", "b">>
FlagM == <<"-", "M">>
WordMirror == <<"m", "i", "r", "r", "o", "r">>
WordMetadata == <<"m", "e", "t", "a", "d", "a", "t", "a">>
Tokens == {UrlA, UrlASlash, UrlDeep, UrlFtp, UrlTab, FlagM, WordMirror, WordMetadata, <<>>}

\* the pages a server may answer with
NoDoc == [wrapped |-> FALSE, els |-> <<>>]
DocLinks == [wrapped |-> TRUE, els |-> <<Anchor, Anchor, ImgNoSrc>>]
DocThree ==
    [wrapped |-> TRUE,
     els |-> <<Img(<<"/", "a">>), Stylesheet(<<"/", "b">>), Script(<<"c">>)>>]
DocBadRef == [wrapped |-> FALSE, els |-> <<Anchor, Img(<<"/", "/">>)>>]
PageDocs == {NoDoc, DocLinks, DocThree, DocBadRef}

\* the states of the metadata file
FileAbsent == [st |-> "absent", entries |-> <<>>]
FileEmpty == [st |-> "empty", entries |-> <<>>]
FileGarbage == [st |-> "garbage", entries |-> <<>>]
FileJson(entries) == [st |-> "json", entries |-> entries]

(***************************************************************************)
(* The state.                                                              *)
(***************************************************************************)
VARIABLES
    procs,        \* invocations started so far
    pc,           \* where main stands ("off": no process is running)
    err,          \* the error that ended the process, "" when none
    args,         \* process.argv.filter(Boolean).slice(2)
    idx,          \* position of the for loop in requestUrls (0: not entered)
    META_DB,      \* the Map, as the sequence of its values in insertion order
    file,         \* fetch-site-cli/meta.json on disk
    w0,           \* the un-awaited fs.writeFile of line 172: none, open, write
    contentHtml,  \* the page fetched by the run in progress
    files,        \* the resource URLs of the run in progress
    task,         \* the state of each resource task of the run in progress
    disk,         \* the files written since the run in progress began
    dirs,         \* the directories made since the run in progress began
    net,          \* the URLs this process has requested
    clock,        \* the time new Date() reads
    out,          \* what displayMetaData printed last
    boot,         \* the state of the metadata file when the process started
    pre,          \* the ledger and the persisted entries when the run started
    cur,          \* what the run in progress has done so far
    hist,         \* the runs this process has finished, in order
    snap,         \* the last attempt to write the snapshot, by any process
    runs,         \* mirroring runs begun so far, by any process
    loaded,       \* the ledger as this process loaded it at startup
    pin, pout, pstep   \* input, output and stage of a function under check

mainVars ==
    <<procs, pc, err, args, idx, META_DB, file, w0, contentHtml, files,
      task, disk, dirs, net, clock, out, boot, pre, cur, hist, snap, runs,
      loaded>>
pureVars == <<pin, pout, pstep>>
vars == <<mainVars, pureVars>>


(***************************************************************************)
(* The Metadata Ledger: fetch.ts lines 41, 169-208.                        *)
(***************************************************************************)
MapHas(db, url) == \E i \in 1..Len(db) : db[i].url = url
MapGet(db, url) == db[CHOOSE i \in 1..Len(db) : db[i].url = url]

\* a plausible slip: a list, to which every update adds an element
MapSet_append(db, url, value) == Append(db, value)

\* Map.prototype.set: an existing key keeps its place, a new one goes last
MapSet(db, url, value) ==
    IF MapHas(db, url)
    THEN [i \in 1..Len(db) |-> IF db[i].url = url THEN value ELSE db[i]]
    ELSE Append(db, value)

\* a plausible slip: the snapshot leaves out the entry written last
JSONstringify_short(db) ==
    [i \in 1..(Len(db) - 1) |-> [db[i] EXCEPT !.last_fetch.type = "string"]]

\* JSON.stringify([...META_DB.values()]): a Date is written as an ISO string
JSONstringify(db) == [i \in 1..Len(db) |-> [db[i] EXCEPT !.last_fetch.type = "string"]]

\* for (const meta of JSON.parse(json)) META_DB.set(meta.url, meta)
RECURSIVE loadEntries(_, _)
loadEntries(entries, db) ==
    IF entries = <<>> THEN db
    ELSE loadEntries(Tail(entries), MapSet(db, Head(entries).url, Head(entries)))

\* the entries a reader of the file gets: none unless the file parses
PersistedEntries(f) == IF f.st = "json" THEN f.entries ELSE <<>>

\* a plausible slip: the previous count is not read
prevFetches_zero(db, url) == 0

\* META_DB.get(url)?.num_fetches ?? 0
prevFetches(db, url) == IF MapHas(db, url) THEN MapGet(db, url).num_fetches ELSE 0

\* a plausible slip: the count is carried over without the increment
createMetaData_stale(db, url, html, now) ==
    [url |-> url,
     num_links |-> countFilesInHtml(html)[1],
     num_images |-> countFilesInHtml(html)[2],
     last_fetch |-> [type |-> "Date", t |-> now],
     num_fetches |-> prevFetches(db, url)]

\* lines 192-202
createMetaData(db, url, html, now) ==
    [url |-> url,
     num_links |-> countFilesInHtml(html)[1],
     num_images |-> countFilesInHtml(html)[2],
     last_fetch |-> [type |-> "Date", t |-> now],
     num_fetches |-> prevFetches(db, url) + 1]

(***************************************************************************)
(* main: fetch.ts lines 43-66.                                             *)
(***************************************************************************)
\* process.argv.filter(Boolean): empty arguments are dropped
RECURSIVE filterBoolean(_)
filterBoolean(argv) ==
    IF argv = <<>> THEN <<>>
    ELSE (IF Head(argv) = <<>> THEN <<>> ELSE <<Head(argv)>>) \o filterBoolean(Tail(argv))

MetadataFlags == {<<"-", "-", "m", "e", "t", "a", "d", "a", "t", "a">>, <<"-", "m">>}

queryMetaData == args # <<>> /\ ToLower(args[1]) \in MetadataFlags
requestUrls == IF queryMetaData THEN Tail(args) ELSE args

\* const url = removeTrailingSlash(requestUrl), for the URL the loop stands at
Url == removeTrailingSlash(requestUrls[idx])

appPath == pathJoin(Cwd, APP_ROOT_PATH)
sitePath(url) == pathJoin(appPath, urlToSiteBaseUrl(url))
pagePath(url) == pathJoin(appPath, urlToFilename(url))

Argvs == UNION {[1..n -> Tokens] : n \in 0..MaxArgs}

\* the mirroring runs a command line asks for
mirrorRuns(a) ==
    IF a = <<>> \/ ToLower(a[1]) \in MetadataFlags THEN 0 ELSE Len(a)

\* what displayMetaData has to show when the ledger has no entry
NoEntry ==
    [url |-> <<>>, num_links |-> 0, num_images |-> 0,
     last_fetch |-> [type |-> "", t |-> 0], num_fetches |-> 0]

NoOut == [url |-> <<>>, found |-> FALSE, entry |-> NoEntry]
NoPre == [db |-> <<>>, entries |-> <<>>]
NoCur == [page |-> FALSE, tasks |-> FALSE, meta |-> FALSE]
NoSnap == [ok |-> FALSE, entries |-> <<>>]

MainIdle ==
    /\ procs = 0 /\ pc = "off" /\ err = "" /\ args = <<>> /\ idx = 0
    /\ META_DB = <<>> /\ w0 = "none"
    /\ contentHtml = NoDoc /\ files = <<>> /\ task = <<>>
    /\ disk = {} /\ dirs = {} /\ net = {} /\ clock = 0
    /\ out = NoOut /\ boot = "" /\ pre = NoPre /\ cur = NoCur /\ hist = <<>>
    /\ snap = NoSnap /\ runs = 0 /\ loaded = <<>>

PureIdle == pin = <<>> /\ pout = <<>> /\ pstep = 0

Init ==
    /\ MainIdle
    /\ file \in {FileAbsent, FileGarbage}
    /\ PureIdle

\* a process is started with some command line; its memory is fresh
StartProcess ==
    /\ pc = "off" /\ procs < MaxProcs
    /\ \E argv \in Argvs :
          /\ args' = filterBoolean(argv)
          /\ runs + mirrorRuns(args') <= MaxRuns
    /\ procs' = procs + 1
    /\ pc' = "main"
    /\ err' = "" /\ idx' = 0 /\ META_DB' = <<>> /\ net' = {} /\ out' = NoOut
    /\ boot' = file.st /\ pre' = NoPre /\ cur' = NoCur /\ hist' = <<>>
    /\ disk' = {} /\ dirs' = {} /\ loaded' = <<>>
    /\ UNCHANGED <<file, w0, contentHtml, files, task, clock, snap, runs, pureVars>>

\* lines 44-47: no arguments, the usage message
Usage ==
    /\ pc = "main" /\ args = <<>>
    /\ pc' = "done"
    /\ UNCHANGED <<procs, err, args, idx, META_DB, file, w0, contentHtml, files, task, disk,
                   dirs, net, clock, out, boot, pre, cur, hist, snap, runs, loaded, pureVars>>

\* line 49 and lines 163-167: mkdir of the application directory; a rejection
\* of the await is an uncaught error of main
CreateAppDirectory ==
    /\ pc = "main" /\ args # <<>>
    /\ \/ /\ dirs' = dirs \cup {appPath}
          /\ pc' = "readMetaDataFile"
          /\ err' = err
       \/ /\ pc' = "crashed"
          /\ err' = "mkdir"
          /\ dirs' = dirs
    /\ UNCHANGED <<procs, args, idx, META_DB, file, w0, contentHtml, files, task, disk, net,
                   clock, out, boot, pre, cur, hist, snap, runs, loaded, pureVars>>

\* lines 170-173: existsSync, and the write of the default file that nobody awaits
ReadMetaDataFileStart ==
    /\ pc = "readMetaDataFile"
    /\ w0' = IF file.st = "absent" THEN "open" ELSE w0
    /\ pc' = "readFileOpen"
    /\ UNCHANGED <<procs, err, args, idx, META_DB, file, contentHtml, files, task, disk,
                   dirs, net, clock, out, boot, pre, cur, hist, snap, runs, loaded, pureVars>>

\* the default write opens the file: it is created, or truncated
DefaultWriteOpen ==
    /\ w0 = "open"
    /\ file' = FileEmpty
    /\ w0' = "write"
    /\ UNCHANGED <<procs, pc, err, args, idx, META_DB, contentHtml, files, task, disk, dirs,
                   net, clock, out, boot, pre, cur, hist, snap, runs, loaded, pureVars>>

\* the default write puts JSON.stringify([]) into the file
DefaultWriteData ==
    /\ w0 = "write"
    /\ file' = FileJson(<<>>)
    /\ w0' = "none"
    /\ UNCHANGED <<procs, pc, err, args, idx, META_DB, contentHtml, files, task, disk, dirs,
                   net, clock, out, boot, pre, cur, hist, snap, runs, loaded, pureVars>>

\* line 174, first half: fs.readFile opens the file; ENOENT rejects the await,
\* which is outside the try block: an uncaught error of main
ReadFileOpen ==
    /\ pc = "readFileOpen"
    /\ IF file.st = "absent"
       THEN pc' = "crashed" /\ err' = "ENOENT"
       ELSE pc' = "readFileData" /\ err' = err
    /\ UNCHANGED <<procs, args, idx, META_DB, file, w0, contentHtml, files, task, disk, dirs,
                   net, clock, out, boot, pre, cur, hist, snap, runs, loaded, pureVars>>

\* line 174, second half, and lines 176-183: the text is read and parsed; a
\* parse error is logged and the ledger stays empty
ReadFileData ==
    /\ pc = "readFileData"
    /\ META_DB' = IF file.st = "json" THEN loadEntries(file.entries, META_DB) ELSE META_DB
    /\ loaded' = META_DB'
    /\ pc' = "loop"
    /\ idx' = 1
    /\ UNCHANGED <<procs, err, args, file, w0, contentHtml, files, task, disk, dirs, net,
                   clock, out, boot, pre, cur, hist, snap, runs, pureVars>>


(***************************************************************************)
(* The file system under the application directory.                        *)
(***************************************************************************)
RECURSIVE Ancestors(_)
Ancestors(p) ==
    IF pathDirname(p) = p \/ pathDirname(p) \in {<<"/">>, Dot} THEN {}
    ELSE {pathDirname(p)} \cup Ancestors(pathDirname(p))

IsFile(p) == \E e \in disk : e.path = p

\* fs.mkdir(p, {recursive: true}) succeeds unless a file is in the way
CanMkdir(p) == ~IsFile(p) /\ \A a \in Ancestors(p) : ~IsFile(a)

\* safeWriteFile (lines 136-140) can succeed: the directory can be made and the
\* path does not name a directory
CanWrite(p) == Last(p) # "/" /\ p \notin dirs /\ \A a \in Ancestors(p) : ~IsFile(a)

Put(d, rec) == {e \in d : e.path # rec.path} \cup {rec}

PageFile(p, doc) == [path |-> p, kind |-> "page", doc |-> doc, href |-> <<>>]
ResourceFile(p, href) == [path |-> p, kind |-> "resource", doc |-> NoDoc, href |-> href]

(***************************************************************************)
(* The loop of main and refetchDataFromUrl: lines 56-65, 82-101.           *)
(***************************************************************************)
\* a plausible slip: an error leaves the loop of main with the run it ends
EndRun_abort(outcome) ==
    /\ hist' = Append(hist, [url |-> Url, outcome |-> outcome, page |-> cur.page,
                             tasks |-> cur.tasks, meta |-> cur.meta])
    /\ idx' = IF outcome = "ok" THEN idx + 1 ELSE Len(requestUrls) + 1
    /\ pc' = "loop"
    /\ contentHtml' = NoDoc /\ files' = <<>> /\ task' = <<>>
    /\ cur' = NoCur

\* the catch of lines 98-100, or the return of line 101: the run is over
EndRun(outcome) ==
    /\ hist' = Append(hist, [url |-> Url, outcome |-> outcome, page |-> cur.page,
                             tasks |-> cur.tasks, meta |-> cur.meta])
    /\ idx' = idx + 1
    /\ pc' = "loop"
    /\ contentHtml' = NoDoc /\ files' = <<>> /\ task' = <<>>
    /\ cur' = NoCur

\* the loop has run out of URLs: main returns
Finish ==
    /\ pc = "loop" /\ idx > Len(requestUrls)
    /\ pc' = "done"
    /\ UNCHANGED <<procs, err, args, idx, META_DB, file, w0, contentHtml, files, task, disk,
                   dirs, net, clock, out, boot, pre, cur, hist, snap, runs, loaded, pureVars>>

\* a plausible slip: a lookup that finds nothing leaves an entry behind
displayMetaData_touch ==
    /\ pc = "loop" /\ idx <= Len(requestUrls) /\ queryMetaData
    /\ out' = IF MapHas(META_DB, Url)
              THEN [url |-> Url, found |-> TRUE, entry |-> MapGet(META_DB, Url)]
              ELSE [url |-> Url, found |-> FALSE, entry |-> NoEntry]
    /\ META_DB' = IF MapHas(META_DB, Url) THEN META_DB
                  ELSE MapSet(META_DB, Url, [NoEntry EXCEPT !.url = Url])
    /\ idx' = idx + 1
    /\ UNCHANGED <<procs, pc, err, args, file, w0, contentHtml, files, task, disk, dirs, net,
                   clock, boot, pre, cur, hist, snap, runs, loaded, pureVars>>

\* lines 59-62 and 68-80
displayMetaData ==
    /\ pc = "loop" /\ idx <= Len(requestUrls) /\ queryMetaData
    /\ out' = IF MapHas(META_DB, Url)
              THEN [url |-> Url, found |-> TRUE, entry |-> MapGet(META_DB, Url)]
              ELSE [url |-> Url, found |-> FALSE, entry |-> NoEntry]
    /\ idx' = idx + 1
    /\ UNCHANGED <<procs, pc, err, args, META_DB, file, w0, contentHtml, files, task, disk,
                   dirs, net, clock, boot, pre, cur, hist, snap, runs, loaded, pureVars>>

\* a plausible slip: the entry of the URL is made when its run starts
refetchDataFromUrl_eager ==
    /\ pc = "loop" /\ idx <= Len(requestUrls) /\ ~queryMetaData
    /\ pc' = "fetchData"
    /\ pre' = [db |-> META_DB, entries |-> PersistedEntries(file)]
    /\ cur' = NoCur
    /\ disk' = {} /\ dirs' = {}
    /\ runs' = runs + 1
    /\ META_DB' = MapSet(META_DB, Url, createMetaData(META_DB, Url, NoDoc, clock))
    /\ UNCHANGED <<procs, err, args, idx, file, w0, contentHtml, files, task, net, clock,
                   out, boot, hist, snap, loaded, pureVars>>

\* line 64: refetchDataFromUrl is entered
refetchDataFromUrl ==
    /\ pc = "loop" /\ idx <= Len(requestUrls) /\ ~queryMetaData
    /\ pc' = "fetchData"
    /\ pre' = [db |-> META_DB, entries |-> PersistedEntries(file)]
    /\ cur' = NoCur
    /\ disk' = {} /\ dirs' = {}
    /\ runs' = runs + 1
    /\ UNCHANGED <<procs, err, args, idx, META_DB, file, w0, contentHtml, files, task, net,
                   clock, out, boot, hist, snap, loaded, pureVars>>

\* lines 114-116: the URL fails the pattern, fetchData throws
fetchDataInvalid ==
    /\ pc = "fetchData" /\ ~isValidUrl(Url)
    /\ EndRun("invalid")
    /\ UNCHANGED <<procs, err, args, META_DB, file, w0, disk, dirs, net, clock, out, boot,
                   pre, snap, runs, loaded, pureVars>>

\* line 118: the request is sent
fetchDataRequest ==
    /\ pc = "fetchData" /\ isValidUrl(Url)
    /\ net' = net \cup {Url}
    /\ pc' = "axiosGet"
    /\ UNCHANGED <<procs, err, args, idx, META_DB, file, w0, contentHtml, files, task, disk,
                   dirs, clock, out, boot, pre, cur, hist, snap, runs, loaded, pureVars>>

\* lines 118-128: the response, or an error, arrives.  A network round trip
\* outlasts the two-byte local write issued at startup, which has settled.
fetchDataResponse ==
    /\ pc = "axiosGet" /\ w0 = "none"
    /\ \/ /\ parseURL(Url).ok
          /\ \E doc \in PageDocs : contentHtml' = doc
          /\ pc' = "createSiteDirectory"
          /\ UNCHANGED <<hist, idx, files, task, cur>>
       \/ EndRun("fetchError")
    /\ UNCHANGED <<procs, err, args, META_DB, file, w0, disk, dirs, net, clock, out, boot,
                   pre, snap, runs, loaded, pureVars>>

\* lines 87 and 155-161
createSiteDirectory ==
    /\ pc = "createSiteDirectory"
    /\ \/ /\ CanMkdir(sitePath(Url))
          /\ dirs' = dirs \cup {sitePath(Url)}
          /\ pc' = "writeFile"
          /\ UNCHANGED <<hist, idx, contentHtml, files, task, cur>>
       \/ /\ EndRun("mkdirError")
          /\ dirs' = dirs
    /\ UNCHANGED <<procs, err, args, META_DB, file, w0, disk, net, clock, out, boot, pre,
                   snap, runs, loaded, pureVars>>

\* lines 88-93: the rewritten page is written beside the site directory
writeFile ==
    /\ pc = "writeFile"
    /\ \/ /\ CanWrite(pagePath(Url))
          /\ disk' = Put(disk, PageFile(pagePath(Url),
                                        modifyHtmlContent(contentHtml, urlToSiteBaseUrl(Url))))
          /\ dirs' = dirs \cup Ancestors(pagePath(Url))
          /\ cur' = [cur EXCEPT !.page = TRUE]
          /\ pc' = "downloadFilesInHtml"
          /\ UNCHANGED <<hist, idx, contentHtml, files, task>>
       \/ /\ EndRun("writeError")
          /\ UNCHANGED <<disk, dirs>>
    /\ UNCHANGED <<procs, err, args, META_DB, file, w0, net, clock, out, boot, pre, snap,
                   runs, loaded, pureVars>>


(***************************************************************************)
(* downloadFilesInHtml and downloadFiles: lines 222-270.                   *)
(***************************************************************************)
\* validFiles.map((url) => new URL(url, baseUrl)): the parsed URLs
resolvedFiles(html, baseUrl) ==
    [i \in 1..Len(validFiles(html)) |-> resolveURL(validFiles(html)[i], baseUrl)]

\* line 229: new URL throws a TypeError on a reference it cannot parse
resolveThrows(html, baseUrl) ==
    \E i \in 1..Len(validFiles(html)) : ~resolvedFiles(html, baseUrl)[i].ok

\* lines 258-259: the local path of a resource
resourcePath(directoryPath, url) == pathJoin(directoryPath, urlPathname(parseURL(url)))

\* a plausible slip: Promise.all lets go as soon as one task has failed
settled_first(tasks) ==
    \/ \A i \in 1..Len(tasks) : tasks[i] \in {"written", "failed"}
    \/ \E i \in 1..Len(tasks) : tasks[i] = "failed"

\* await Promise.all(promises), no promise of which rejects: every task is over
settled(tasks) == \A i \in 1..Len(tasks) : tasks[i] \in {"written", "failed"}

\* line 229 throws: the error leaves downloadFilesInHtml and is caught at line 98
downloadFilesInHtmlThrows ==
    /\ pc = "downloadFilesInHtml" /\ resolveThrows(contentHtml, Url)
    /\ EndRun("resolveError")
    /\ UNCHANGED <<procs, err, args, META_DB, file, w0, disk, dirs, net, clock, out, boot,
                   pre, snap, runs, loaded, pureVars>>

\* lines 223-231 and 255-260: the references are resolved and every task runs
\* to its request
downloadFilesStart ==
    /\ pc = "downloadFilesInHtml" /\ ~resolveThrows(contentHtml, Url)
    /\ files' = [i \in 1..Len(validFiles(contentHtml)) |->
                    urlHref(resolvedFiles(contentHtml, Url)[i])]
    /\ task' = [i \in 1..Len(validFiles(contentHtml)) |-> "requested"]
    /\ cur' = [cur EXCEPT !.tasks = TRUE]
    /\ net' = net \cup {files'[i] : i \in 1..Len(files')}
    /\ pc' = "downloadFiles"
    /\ UNCHANGED <<procs, err, args, idx, META_DB, file, w0, contentHtml, disk, dirs, clock,
                   out, boot, pre, hist, snap, runs, loaded, pureVars>>

\* line 260: the response of one resource arrives, or its request fails
taskResponse(i) ==
    /\ pc = "downloadFiles" /\ task[i] = "requested"
    /\ \/ task' = [task EXCEPT ![i] = "got"]
       \/ task' = [task EXCEPT ![i] = "failed"]
    /\ UNCHANGED <<procs, pc, err, args, idx, META_DB, file, w0, contentHtml, files, disk,
                   dirs, net, clock, out, boot, pre, cur, hist, snap, runs, loaded, pureVars>>

\* line 261: the resource is written, or the write fails (lines 263-266)
taskWrite(i) ==
    /\ pc = "downloadFiles" /\ task[i] = "got"
    /\ \/ /\ CanWrite(resourcePath(sitePath(Url), files[i]))
          /\ disk' = Put(disk, ResourceFile(resourcePath(sitePath(Url), files[i]), files[i]))
          /\ dirs' = dirs \cup Ancestors(resourcePath(sitePath(Url), files[i]))
          /\ task' = [task EXCEPT ![i] = "written"]
       \/ /\ task' = [task EXCEPT ![i] = "failed"]
          /\ UNCHANGED <<disk, dirs>>
    /\ UNCHANGED <<procs, pc, err, args, idx, META_DB, file, w0, contentHtml, files, net,
                   clock, out, boot, pre, cur, hist, snap, runs, loaded, pureVars>>

\* a plausible slip: the join is a race, over with the first task that is
downloadFilesJoin_race ==
    /\ pc = "downloadFiles"
    /\ task = <<>> \/ \E i \in 1..Len(task) : task[i] \in {"written", "failed"}
    /\ pc' = "updateMetaData"
    /\ UNCHANGED <<procs, err, args, idx, META_DB, file, w0, contentHtml, files, task, disk,
                   dirs, net, clock, out, boot, pre, cur, hist, snap, runs, loaded, pureVars>>

\* line 269: the join; line 97 is next
downloadFilesJoin ==
    /\ pc = "downloadFiles" /\ settled(task)
    /\ pc' = "updateMetaData"
    /\ UNCHANGED <<procs, err, args, idx, META_DB, file, w0, contentHtml, files, task, disk,
                   dirs, net, clock, out, boot, pre, cur, hist, snap, runs, loaded, pureVars>>

\* a plausible slip: the ledger is updated without awaiting the downloads
updateMetaData_early ==
    /\ pc \in {"downloadFiles", "updateMetaData"}
    /\ META_DB' = MapSet(META_DB, Url, createMetaData(META_DB, Url, contentHtml, clock))
    /\ clock' = clock + 1
    /\ cur' = [cur EXCEPT !.meta = TRUE]
    /\ pc' = "writeMetaFile"
    /\ UNCHANGED <<procs, err, args, idx, file, w0, contentHtml, files, task, disk, dirs,
                   net, out, boot, pre, hist, snap, runs, loaded, pureVars>>

\* lines 204-206: the entry is replaced in memory
updateMetaData ==
    /\ pc = "updateMetaData"
    /\ META_DB' = MapSet(META_DB, Url, createMetaData(META_DB, Url, contentHtml, clock))
    /\ clock' = clock + 1
    /\ cur' = [cur EXCEPT !.meta = TRUE]
    /\ pc' = "writeMetaFile"
    /\ UNCHANGED <<procs, err, args, idx, file, w0, contentHtml, files, task, disk, dirs,
                   net, out, boot, pre, hist, snap, runs, loaded, pureVars>>

\* a plausible slip: a failed snapshot write takes the update back
writeMetaFile_rollback ==
    /\ pc = "writeMetaFile"
    /\ \/ /\ file' = FileJson(JSONstringify(META_DB))
          /\ snap' = [ok |-> TRUE, entries |-> META_DB]
          /\ META_DB' = META_DB
          /\ EndRun("ok")
       \/ /\ file' = file
          /\ snap' = [ok |-> FALSE, entries |-> <<>>]
          /\ META_DB' = pre.db
          /\ EndRun("metaWriteError")
       \/ /\ file' = FileEmpty
          /\ snap' = [ok |-> FALSE, entries |-> <<>>]
          /\ META_DB' = pre.db
          /\ EndRun("metaWriteError")
    /\ UNCHANGED <<procs, err, args, w0, disk, dirs, net, clock, out, boot, pre, runs,
                   loaded, pureVars>>

\* lines 186-190 and 207: the snapshot is written; a failure (before or after
\* the file was truncated) is caught at line 98
writeMetaFile ==
    /\ pc = "writeMetaFile"
    /\ \/ /\ file' = FileJson(JSONstringify(META_DB))
          /\ snap' = [ok |-> TRUE, entries |-> META_DB]
          /\ EndRun("ok")
       \/ /\ file' = file
          /\ snap' = [ok |-> FALSE, entries |-> <<>>]
          /\ EndRun("metaWriteError")
       \/ /\ file' = FileEmpty
          /\ snap' = [ok |-> FALSE, entries |-> <<>>]
          /\ EndRun("metaWriteError")
    /\ UNCHANGED <<procs, err, args, META_DB, w0, disk, dirs, net, clock, out, boot, pre,
                   runs, loaded, pureVars>>

\* main has returned and nothing is pending: the process ends
Exit ==
    /\ pc = "done" /\ w0 = "none"
    /\ pc' = "off"
    /\ UNCHANGED <<procs, err, args, idx, META_DB, file, w0, contentHtml, files, task, disk,
                   dirs, net, clock, out, boot, pre, cur, hist, snap, runs, loaded, pureVars>>

\* the rejection of main is unhandled: the process ends at once, and what the
\* default write had not done yet is never done
Crash ==
    /\ pc = "crashed"
    /\ pc' = "off"
    /\ w0' = "none"
    /\ UNCHANGED <<procs, err, args, idx, META_DB, file, contentHtml, files, task, disk,
                   dirs, net, clock, out, boot, pre, cur, hist, snap, runs, loaded, pureVars>>

Next ==
    \/ StartProcess \/ Usage \/ CreateAppDirectory \/ ReadMetaDataFileStart
    \/ DefaultWriteOpen \/ DefaultWriteData \/ ReadFileOpen \/ ReadFileData
    \/ Finish \/ displayMetaData \/ refetchDataFromUrl
    \/ fetchDataInvalid \/ fetchDataRequest \/ fetchDataResponse
    \/ createSiteDirectory \/ writeFile
    \/ downloadFilesInHtmlThrows \/ downloadFilesStart
    \/ (\E i \in 1..Len(task) : taskResponse(i))
    \/ (\E i \in 1..Len(task) : taskWrite(i))
    \/ downloadFilesJoin \/ updateMetaData \/ writeMetaFile
    \/ Exit \/ Crash

Spec == Init /\ [][Next]_vars

(***************************************************************************)
(* The functions of the program on generated inputs.  Each specification   *)
(* below draws an input, and its actions apply the functions in the order  *)
(* the program does; the process itself stays idle.                        *)
(***************************************************************************)
RECURSIVE TextsOver(_, _)
TextsOver(chars, n) ==
    IF n = 0 THEN {<<>>}
    ELSE TextsOver(chars, n - 1)
           \cup {Append(t, c) : t \in {x \in TextsOver(chars, n - 1) : Len(x) = n - 1}, c \in chars}

FtpScheme == <<"f", "t", "p", ":", "/", "/">>

\* requested URLs: a scheme and a generated tail
UrlInputs ==
    {scheme \o tail : scheme \in {HttpScheme, HttpsScheme, FtpScheme},
                      tail \in TextsOver({"a", "/", ".", " "}, MaxTail)}

\* references as they stand in a page
RefInputs ==
    TextsOver({"a", "/", "?"}, MaxRef)
      \cup {<<".", ".", "/", "a">>, <<".", "/", "a">>, <<"a", "/", ".", ".", "/", "a">>,
            <<"/", "/", "a", "/", "a">>,
            <<"h", "t", "t", "p", ":", "/", "/", "a", "b", "/", "a">>}

PageUrls == {UrlA, UrlDeep, <<"h", "t", "t", "p", "s", ":", "/", "/", "a", "b", "/", "c">>}

\* line 57 of main, on an argument
NormalizeArgument ==
    /\ pstep = 0
    /\ pout' = removeTrailingSlash(pin)
    /\ pstep' = 1
    /\ UNCHANGED <<mainVars, pin>>

\* line 57 of main, when the URL it produced is given as the argument
NormalizeAgain ==
    /\ pstep = 1
    /\ pout' = removeTrailingSlash(pout)
    /\ pstep' = 2
    /\ UNCHANGED <<mainVars, pin>>

InitNormalize == MainIdle /\ file = FileAbsent /\ pin \in UrlInputs /\ pout = <<>> /\ pstep = 0
NextNormalize == NormalizeArgument \/ NormalizeAgain
SpecNormalize == InitNormalize /\ [][NextNormalize]_vars

\* documents of one element
RewriteDocs ==
    {[wrapped |-> w, els |-> <<el>>] :
        w \in BOOLEAN,
        el \in {Anchor, ImgNoSrc} \cup {Img(r) : r \in RefInputs}
                 \cup {Stylesheet(r) : r \in RefInputs} \cup {Script(r) : r \in RefInputs}}

\* line 92, on a fetched page
Rewrite ==
    /\ pstep = 0
    /\ pout' = modifyHtmlContent(pin.doc, pin.dir)
    /\ pstep' = 1
    /\ UNCHANGED <<mainVars, pin>>

\* line 92, on the page it produced
RewriteAgain ==
    /\ pstep = 1
    /\ pout' = modifyHtmlContent(pout, pin.dir)
    /\ pstep' = 2
    /\ UNCHANGED <<mainVars, pin>>

InitRewrite ==
    /\ MainIdle /\ file = FileAbsent
    /\ pin \in {[doc |-> d, dir |-> urlToSiteBaseUrl(u)] : d \in RewriteDocs, u \in PageUrls}
    /\ pout = NoDoc /\ pstep = 0
NextRewrite == Rewrite \/ RewriteAgain
SpecRewrite == InitRewrite /\ [][NextRewrite]_vars

NoPaths == [attr |-> <<>>, href |-> <<>>, filePath |-> <<>>, written |-> FALSE]

\* line 92: the reference as the page file holds it
PathRewrite ==
    /\ pstep = 0
    /\ pout' = [pout EXCEPT !.attr = modifyPath(Img(pin.ref), urlToSiteBaseUrl(pin.url)).val]
    /\ pstep' = 1
    /\ UNCHANGED <<mainVars, pin>>

\* lines 228-229: the reference passes the filter and is resolved
PathResolve ==
    /\ pstep = 1
    /\ validFilename(pin.ref) /\ resolveURL(pin.ref, pin.url).ok
    /\ pout' = [pout EXCEPT !.href = urlHref(resolveURL(pin.ref, pin.url))]
    /\ pstep' = 2
    /\ UNCHANGED <<mainVars, pin>>

\* lines 258-261: the resource is downloaded and written, unless that fails
PathDownload ==
    /\ pstep = 2
    /\ \/ /\ Last(resourcePath(sitePath(pin.url), pout.href)) # "/"
          /\ pout' = [pout EXCEPT !.filePath = resourcePath(sitePath(pin.url), pout.href),
                                  !.written = TRUE]
       \/ pout' = [pout EXCEPT !.filePath = resourcePath(sitePath(pin.url), pout.href)]
    /\ pstep' = 3
    /\ UNCHANGED <<mainVars, pin>>

InitPaths ==
    /\ MainIdle /\ file = FileAbsent
    /\ pin \in {[url |-> u, ref |-> r] : u \in PageUrls, r \in RefInputs}
    /\ pout = NoPaths /\ pstep = 0
NextPaths == PathRewrite \/ PathResolve \/ PathDownload
SpecPaths == InitPaths /\ [][NextPaths]_vars

(***************************************************************************)
(* The properties checked.                                                 *)
(***************************************************************************)
\* num_fetches of url in a ledger, 0 when it has no entry
FetchesIn(db, url) ==
    IF \E i \in 1..Len(db) : db[i].url = url
    THEN db[CHOOSE i \in 1..Len(db) : db[i].url = url].num_fetches
    ELSE 0

\* the entry of url in a ledger
EntryIn(db, url) == db[CHOOSE i \in 1..Len(db) : db[i].url = url]

\* two ledgers hold the same entries in the same order, a last_fetch being the
\* same instant whether it is held as a Date or as its ISO string
SameEntry(a, b) ==
    /\ a.url = b.url /\ a.num_links = b.num_links /\ a.num_images = b.num_images
    /\ a.num_fetches = b.num_fetches /\ a.last_fetch.t = b.last_fetch.t
SameLedger(a, b) == Len(a) = Len(b) /\ \A i \in 1..Len(a) : SameEntry(a[i], b[i])

LastRun == hist[Len(hist)]

\* a run is between its start and the update of the ledger
BeforeUpdate == pc \in {"fetchData", "axiosGet", "createSiteDirectory", "writeFile"}

\* the last run of this process is over
AfterRun == hist # <<>> /\ pc \in {"loop", "done", "off"}

UpdatesOf(url) == Cardinality({i \in 1..Len(hist) : hist[i].url = url /\ hist[i].meta})

\* C2: right after updateMetaData the entry of the URL has the previous
\* num_fetches (0 when there was none) plus one and the a and img counts of the
\* page just fetched, and every other entry is as it was; in a process that
\* started with an empty ledger, num_fetches of every entry is the number of
\* runs that updated it.
C2_FetchCount ==
    /\ pc = "writeMetaFile" =>
          /\ \E i \in 1..Len(META_DB) : META_DB[i].url = Url
          /\ EntryIn(META_DB, Url).num_fetches = FetchesIn(pre.db, Url) + 1
          /\ EntryIn(META_DB, Url).num_links
                = Cardinality({i \in 1..Len(contentHtml.els) : contentHtml.els[i].tag = "a"})
          /\ EntryIn(META_DB, Url).num_images
                = Cardinality({i \in 1..Len(contentHtml.els) : contentHtml.els[i].tag = "img"})
          /\ \A i \in 1..Len(pre.db) : pre.db[i].url # Url => META_DB[i] = pre.db[i]
          /\ Len(META_DB) = Len(pre.db) + (IF FetchesIn(pre.db, Url) = 0 THEN 1 ELSE 0)
    /\ (AfterRun /\ boot # "json") =>
          \A i \in 1..Len(META_DB) : META_DB[i].num_fetches = UpdatesOf(META_DB[i].url)

\* C2 witness: the second mirror of a URL, whose page has other counts than the
\* first had
C2_Witness ==
    /\ pc = "writeMetaFile" /\ boot # "json"
    /\ EntryIn(META_DB, Url).num_fetches = 2
    /\ EntryIn(pre.db, Url).num_links = 2 /\ EntryIn(META_DB, Url).num_links = 0

\* C3: once the download phase is over, every resource of the page was
\* requested and every task has either written its file, which is on disk, or
\* failed; and a run that started its resource tasks updates the ledger.
C3_ResourceIsolation ==
    /\ pc \in {"updateMetaData", "writeMetaFile"} =>
          \A i \in 1..Len(task) :
              /\ files[i] \in net
              /\ task[i] \in {"written", "failed"}
              /\ task[i] = "written" =>
                    \E e \in disk : /\ e.path = resourcePath(sitePath(Url), files[i])
                                    /\ e.kind = "resource"
    /\ pc = "writeMetaFile" => cur.meta
    /\ \A i \in 1..Len(hist) : hist[i].tasks => hist[i].meta

\* C3 witness: one of three resources failed, the other two are written and the
\* ledger is updated
C3_Witness ==
    /\ pc = "writeMetaFile" /\ Len(task) = 3
    /\ Cardinality({i \in 1..3 : task[i] = "failed"}) = 1
    /\ Cardinality({e \in disk : e.kind = "resource"}) = 2
    /\ \E i \in 1..Len(META_DB) : META_DB[i].url = Url

\* C4: every run that wrote its page file went on to updateMetaData.
C4_PageWrittenThenMetadata == \A i \in 1..Len(hist) : hist[i].page => hist[i].meta

\* C5: once the loop of main is entered no error is uncaught; the runs are
\* made in argument order, one per requested URL, whatever their outcome; and
\* main returns only after the last URL.
C5_EveryUrlAttempted ==
    /\ pc = "crashed" => idx = 0
    /\ (idx >= 1 /\ ~queryMetaData) =>
          /\ Len(hist) = idx - 1
          /\ idx <= Len(requestUrls) + 1
          /\ \A i \in 1..Len(hist) : hist[i].url = removeTrailingSlash(requestUrls[i])
    /\ (pc = "done" /\ args # <<>>) => idx = Len(requestUrls) + 1

\* C5 witness: the first run failed where the ledger is written, the second
\* failed in validation, and main has returned
C5_Witness ==
    /\ pc = "done" /\ Len(hist) = 2
    /\ hist[1].outcome = "metaWriteError" /\ hist[2].outcome = "invalid"

\* the file an attribute value of the page file refers to: its path part,
\* resolved against the directory the page file is in
LocalTarget(attr) == pathJoin(appPath, UpToAny(attr, {"?", "#"}))

\* C6: the reference written into the page file for a downloaded resource
\* refers to the file the downloader wrote.
C6_RewrittenPathIsDownloadPath ==
    (pstep = 3 /\ pout.written) => LocalTarget(pout.attr) = pout.filePath

C8_StartupTolerant ==
    boot \in {"absent", "empty", "garbage"} =>
        /\ ~(pc = "crashed" /\ err = "ENOENT")
        /\ (pc = "loop" /\ idx = 1) => META_DB = <<>>

\* C9: normalizing a valid URL a second time changes nothing, nor do the page
\* filename and the site directory derived from it change.
C9_NormalizeIdempotent ==
    (pstep = 2 /\ isValidUrl(pin)) =>
        /\ pout = removeTrailingSlash(pin)
        /\ urlToFilename(pout) = urlToFilename(removeTrailingSlash(pin))
        /\ urlToSiteBaseUrl(pout) = urlToSiteBaseUrl(removeTrailingSlash(pin))

\* C10: rewriting a rewritten document with the same site directory changes
\* nothing.
C10_RewriteIdempotent == pstep = 2 => pout = modifyHtmlContent(pin.doc, pin.dir)

\* a string that is not an HTTP(S) URL: empty, of another scheme, or with
\* whitespace in it
InvalidString(s) ==
    \/ s = <<>>
    \/ ~(StartsWith(ToLower(s), HttpScheme) \/ StartsWith(ToLower(s), HttpsScheme))
    \/ \E i \in 1..Len(s) : s[i] \in WhiteSpace

\* refetchDataFromUrl has been entered and has not returned
InRun ==
    pc \in {"fetchData", "axiosGet", "createSiteDirectory", "writeFile",
            "downloadFilesInHtml", "downloadFiles", "updateMetaData", "writeMetaFile"}

\* C11: a run for a string that is not an HTTP(S) URL stops at validation: no
\* request is sent for it, no directory or file is made, the ledger and the
\* entries of the metadata file stay as they were, and the run ends invalid.
C11_InvalidUrlNoSideEffect ==
    /\ (InRun /\ InvalidString(Url)) =>
          /\ pc = "fetchData"
          /\ Url \notin net /\ disk = {} /\ dirs = {}
          /\ META_DB = pre.db /\ PersistedEntries(file) = pre.entries
    /\ (AfterRun /\ InvalidString(LastRun.url)) =>
          /\ LastRun.outcome = "invalid"
          /\ LastRun.url \notin net /\ disk = {} /\ dirs = {}
          /\ META_DB = pre.db /\ PersistedEntries(file) = pre.entries

\* C12: a process in metadata-query mode sends no request and writes no page
\* or resource file; each step of its loop leaves the ledger and the entries
\* of the metadata file as they are; and each lookup reports the URL's entry
\* of the ledger, or that there is none.
C12_QueryReadOnly ==
    /\ [](queryMetaData => (net = {} /\ disk = {}))
    /\ [][(queryMetaData /\ pc = "loop") =>
            /\ META_DB' = META_DB
            /\ PersistedEntries(file') = PersistedEntries(file)
            /\ dirs' = dirs
            /\ idx' # idx =>
                  /\ out'.url = Url
                  /\ out'.found = (\E i \in 1..Len(META_DB) : META_DB[i].url = Url)
                  /\ out'.found => out'.entry = EntryIn(META_DB, Url)]_vars

\* C12 witness: two URLs were queried, the first of which has no entry and the
\* second of which has one
C12_Witness ==
    /\ queryMetaData /\ pc = "done" /\ Len(requestUrls) = 2
    /\ ~MapHas(META_DB, removeTrailingSlash(requestUrls[1]))
    /\ out.found /\ out.url = removeTrailingSlash(requestUrls[2])
    /\ out.entry.num_fetches >= 1

\* C13: every entry of the ledger has num_fetches of at least 1, in every
\* state, the state right after the load of the metadata file included; and no
\* step of a process removes an entry or lowers its num_fetches.
C13_FetchesPositiveMonotone ==
    /\ [](\A i \in 1..Len(META_DB) : META_DB[i].num_fetches >= 1)
    /\ [][pc # "off" =>
            \A i \in 1..Len(META_DB) :
                \E j \in 1..Len(META_DB') :
                    /\ META_DB'[j].url = META_DB[i].url
                    /\ META_DB'[j].num_fetches >= META_DB[i].num_fetches]_vars

\* C13 witness: a process has just loaded a file with an entry that an
\* earlier process had raised to num_fetches 2
C13_Witness ==
    /\ procs = 2 /\ pc = "loop" /\ idx = 1 /\ hist = <<>> /\ boot = "json"
    /\ \E i \in 1..Len(META_DB) : META_DB[i].num_fetches = 2

\* the leading tokens that select a mode
QueryWords == MetadataFlags \cup {WordMetadata}
MirrorWords == {WordMirror}

\* C14: the first argument selects the mode and is never itself handled as a
\* URL: after a leading metadata, --metadata or -m nothing is fetched and the
\* lookups are for the arguments that follow it; after a leading mirror the
\* runs are for the arguments that follow it.
C14_ModeByFirstArgument ==
    /\ (args # <<>> /\ ToLower(args[1]) \in QueryWords) =>
          /\ net = {} /\ hist = <<>> /\ ~InRun
          /\ out # NoOut =>
                \E i \in 2..Len(args) : out.url = removeTrailingSlash(args[i])
    /\ (args # <<>> /\ args[1] \in MirrorWords) =>
          /\ \A i \in 1..Len(hist) :
                i + 1 <= Len(args) /\ hist[i].url = removeTrailingSlash(args[i + 1])
          /\ InRun => idx >= 2
          /\ out = NoOut

\* a resource task of the page has neither written its file nor failed
Unsettled == \E i \in 1..Len(task) : task[i] \in {"requested", "got"}

\* C15: while a resource task is unsettled the run stays in downloadFiles: the
\* ledger is as it was at the start of the run and the next run has not
\* started; and downloadFiles is left only for updateMetaData, with every task
\* settled.
C15_JoinBarrier ==
    /\ [](Unsettled =>
            /\ pc = "downloadFiles" /\ ~cur.meta
            /\ META_DB = pre.db /\ Len(hist) = idx - 1)
    /\ [][(pc = "downloadFiles" /\ pc' # "downloadFiles") =>
            /\ ~Unsettled /\ task' = task
            /\ pc' = "updateMetaData"]_vars

\* C15 witness: the first of three tasks has failed and downloadFiles still
\* waits for the other two
C15_Witness ==
    /\ pc = "downloadFiles" /\ Len(task) = 3
    /\ task[1] = "failed" /\ task[2] = "requested" /\ task[3] = "got"

(***************************************************************************)
(* The resource tasks of a page with two references: lines 228-229 and     *)
(* 255-259.                                                                *)
(***************************************************************************)
NoTasks == [files |-> <<>>, paths |-> <<>>]

\* pages of two resource elements
TaskRefs == RefInputs \cup {<<"/", "/", "b", "/", "a">>}
TaskDocs ==
    {[wrapped |-> TRUE, els |-> <<Img(r), Script(q)>>] : r \in TaskRefs, q \in TaskRefs}

\* lines 228-229: the references that pass the filter are resolved
TasksResolve ==
    /\ pstep = 0
    /\ ~resolveThrows(pin.doc, pin.url)
    /\ pout' = [pout EXCEPT !.files =
                   [i \in 1..Len(validFiles(pin.doc)) |->
                       urlHref(resolvedFiles(pin.doc, pin.url)[i])]]
    /\ pstep' = 1
    /\ UNCHANGED <<mainVars, pin>>

\* lines 255-259: one task per resolved reference, each with its local path
TasksPaths ==
    /\ pstep = 1
    /\ pout' = [pout EXCEPT !.paths =
                   [i \in 1..Len(pout.files) |-> resourcePath(sitePath(pin.url), pout.files[i])]]
    /\ pstep' = 2
    /\ UNCHANGED <<mainVars, pin>>

InitTasks ==
    /\ MainIdle /\ file = FileAbsent
    /\ pin \in {[url |-> u, doc |-> d] : u \in PageUrls, d \in TaskDocs}
    /\ pout = NoTasks /\ pstep = 0
NextTasks == TasksResolve \/ TasksPaths
SpecTasks == InitTasks /\ [][NextTasks]_vars

\* C16: the resource tasks of one page have pairwise distinct local paths.
C16_DistinctTaskPaths ==
    pstep = 2 =>
        \A i, j \in 1..Len(pout.paths) : i # j => pout.paths[i] # pout.paths[j]

NoSites == [page1 |-> <<>>, site1 |-> <<>>, page2 |-> <<>>, site2 |-> <<>>]

\* the URLs runs are made for: arguments as main normalizes them, that pass
\* the validation of fetchData
SiteUrls ==
    {u \in {removeTrailingSlash(scheme \o tail) :
               scheme \in {HttpScheme, HttpsScheme},
               tail \in TextsOver({"a", "/", "?", "."}, MaxTail)} : isValidUrl(u)}

\* lines 87-89 in the run for the first URL
DeriveFirst ==
    /\ pstep = 0
    /\ pout' = [pout EXCEPT !.page1 = pagePath(pin[1]), !.site1 = sitePath(pin[1])]
    /\ pstep' = 1
    /\ UNCHANGED <<mainVars, pin>>

\* lines 87-89 in the run for the second URL
DeriveSecond ==
    /\ pstep = 1
    /\ pout' = [pout EXCEPT !.page2 = pagePath(pin[2]), !.site2 = sitePath(pin[2])]
    /\ pstep' = 2
    /\ UNCHANGED <<mainVars, pin>>

InitSites ==
    /\ MainIdle /\ file = FileAbsent
    /\ pin \in {<<u, v>> : u \in SiteUrls, v \in SiteUrls}
    /\ pin[1] # pin[2]
    /\ pout = NoSites /\ pstep = 0
NextSites == DeriveFirst \/ DeriveSecond
SpecSites == InitSites /\ [][NextSites]_vars

\* C19: the runs for two different URLs have different page files and
\* different site directories.
C19_DistinctSitePaths ==
    pstep = 2 => (pout.page1 # pout.page2 /\ pout.site1 # pout.site2)

=============================================================================
